---- MODULE Spec2Model ----
(***************************************************************************)
(* The remote-terminal core of termux-file-manager (src/index.js, the      *)
(* TERMINAL section of init()): the session table _terminals, the          *)
(* per-session buffer / subscriber list / alive flag, the child-process    *)
(* event handlers, and the HTTP handlers spawn, list, input, signal, kill  *)
(* and stream; and the one-shot command path of the same section: the      *)
(* table _termSessions of working directories and the HTTP handlers exec   *)
(* and reset-session.  Beside them: resolveSafe, the path check of the file *)
(* routes (src/index.js), and the launcher that restarts the server worker *)
(* (src/standalone.js).                                                    *)
(*                                                                         *)
(* Node runs every handler and every event callback to completion on one   *)
(* thread, so each of them is one atomic action here.                      *)
(*                                                                         *)
(* A string is a sequence of tokens.  The n-th chunk the child processes   *)
(* emit is the one-token string <<n>>, so that a chunk can be recognised   *)
(* inside a joined history; the notices the handlers build are the         *)
(* strings <<0>>, <<-1>> and <<-2>>.  String(++_termIdCounter) is          *)
(* injective, so a session id is kept as the number it prints.             *)
(***************************************************************************)
EXTENDS Integers, Sequences, FiniteSets, TLC

\* ---- program constants (src/index.js:881) ----
BUF_MAX == 5000
BUF_KEEP == 3000

\* ---- bounds of the model ----
MaxSpawns == 2      \* spawn requests served (Spec)
MaxChunks == 1      \* stdout/stderr data events delivered (Spec)
MaxClients == 1     \* stream connections opened (Spec)
StreamChunks == 3   \* data events delivered (SpecStream, one session)
StreamClients == 2  \* stream connections opened (SpecStream)
BurstChunks == 3    \* data events delivered (SpecBuffer)
BurstClients == 1   \* stream connections opened (SpecBuffer)
MaxErrors == 1      \* 'error' events delivered
MaxStdinCloses == 1 \* children whose stdin stops being writable
MaxPings == 1       \* keep-alive ticks delivered

VARIABLES
    termIdCounter,  \* let _termIdCounter
    terminals,      \* const _terminals: key (id) -> reference to a term object
    terms,          \* the term objects ever built, by reference (allocation order)
    procs,          \* the child process behind each term object
    conns,          \* the stream responses (res) ever opened
    nOut,           \* number of data events delivered so far (names the next chunk)
    appended,       \* history variable: per term, every chunk ever appended to its buffer
    killed,         \* history variable: the ids a kill request found registered
    budget,         \* what the model still allows: spawns, data events, connections
    termSessions,   \* const _termSessions: session token -> { cwd, prevCwd }
    fs,             \* the file system: what stands at each path the model can change
    cdTo,           \* history variable: per token, where its last successful bare cd went
    running,        \* the tokens of the exec calls that are inside execSync (one at most)
    lastResolve,    \* the last call of resolveSafe: its argument and what it did
    launcher        \* standalone.js: the launcher process and its server worker

termVars == <<termIdCounter, terminals, terms, procs, conns, nOut, appended, killed, budget>>
execVars == <<termSessions, fs, cdTo, running>>
fileVars == <<lastResolve>>
launchVars == <<launcher>>
vars == <<termIdCounter, terminals, terms, procs, conns, nOut, appended, killed, budget,
          termSessions, fs, cdTo, running, lastResolve, launcher>>

\* execSync keeps the one thread of the server until the command is over: no
\* handler and no callback runs while a call is inside it
Idle == running = {}

\* ------------------------------------------------------------------ strings

Text(n) == <<n>>
ExitMsg == <<0>>
ErrorMsg == <<0 - 1>>
AlreadyExitedMsg == <<0 - 2>>

IsOutputChunk(t) == t[1] > 0

RECURSIVE JoinRange(_, _, _)
JoinRange(b, lo, hi) ==
    IF lo > hi THEN <<>>
    ELSE IF lo = hi THEN b[lo]
    ELSE LET mid == (lo + hi) \div 2
         IN  JoinRange(b, lo, mid) \o JoinRange(b, mid + 1, hi)

\* Array.prototype.join(''): the concatenation of the chunks, in order.
Join(b) == JoinRange(b, 1, Len(b))

\* slice(0, k) written for slice(-k): the oldest k chunks are kept
SliceLastMut(b, k) ==
    IF Len(b) <= k THEN b ELSE SubSeq(b, 1, k)

\* Array.prototype.slice(-k)
SliceLast(b, k) ==
    IF Len(b) <= k THEN b ELSE SubSeq(b, Len(b) - k + 1, Len(b))

\* a first-in-first-out trim: slice(-5000) written for slice(-3000)
TrimBufferMut(b) ==
    IF Len(b) > BUF_MAX THEN SubSeq(b, Len(b) - BUF_MAX + 1, Len(b)) ELSE b

\* push: "if (term.buffer.length > 5000) term.buffer = term.buffer.slice(-3000)"
TrimBuffer(b) ==
    IF Len(b) > BUF_MAX THEN SliceLast(b, BUF_KEEP) ELSE b

Range(s) == {s[i] : i \in DOMAIN s}

\* ------------------------------------------------------------------ events

Event(type, data) == [type |-> type, data |-> data]

\* the event is put in front of what was already written
WriteEventMut(log, ev) == <<ev>> \o log

\* res.write of one event on a response
WriteEvent(log, ev) == Append(log, ev)

\* "for (const c of term.clients) c.write(ev)"
FanOut(cs, clients, ev) ==
    [c \in DOMAIN cs |->
        IF c \in Range(clients)
        THEN [cs[c] EXCEPT !.log = WriteEvent(@, ev)]
        ELSE cs[c]]

\* ------------------------------------------------------------------ paths and the file system

\* An absolute path is the sequence of its segments; <<>> is "/".
HomeDir == <<"home">>
TmpDir == <<"tmp">>
SubDir == <<"home", "a">>

\* the paths whose content changes in the model; "/" and the home directory
\* are directories throughout
FsPaths == {TmpDir, SubDir}
FsKinds == {"dir", "file", "none"}

Kind(fsys, p) ==
    IF p \in {<<>>, HomeDir} THEN "dir"
    ELSE IF p \in DOMAIN fsys THEN fsys[p]
    ELSE "none"

\* fs.existsSync(p)
ExistsSync(fsys, p) == Kind(fsys, p) # "none"

\* fs.existsSync(p) && fs.statSync(p).isDirectory()
IsDirectory(fsys, p) == Kind(fsys, p) = "dir"

\* path.resolve / path.join on segments: ".." drops the segment before it
RECURSIVE Normalize(_, _)
Normalize(done, rest) ==
    IF rest = <<>> THEN done
    ELSE IF Head(rest) = ".."
         THEN Normalize(IF done = <<>> THEN <<>> ELSE SubSeq(done, 1, Len(done) - 1),
                        Tail(rest))
         ELSE Normalize(Append(done, Head(rest)), Tail(rest))

PathResolve(base, segs) == Normalize(base, segs)
PathJoin(base, segs) == Normalize(base, segs)
PathDirname(p) == IF p = <<>> THEN <<>> ELSE SubSeq(p, 1, Len(p) - 1)

\* ------------------------------------------------------------------ commands

\* The text of a cd target: what it starts with ("/", "~/", "~" alone or
\* nothing) and its segments.
PathText(lead, segs) == [lead |-> lead, segs |-> segs]
EmptyText == PathText("", <<>>)
TildeText == PathText("~", <<>>)
DashText == PathText("", <<"-">>)
DotDotText == PathText("", <<"..">>)

\* the name a last segment becomes when the separator and REST are read as
\* part of it; no such entry is in the file system of the model
TailName == "TARGET && REST"

\* text followed by the separator and REST, read as one target
WithTail(text) ==
    IF text.segs = <<>>
    THEN PathText(IF text.lead = "~" THEN "" ELSE text.lead, <<TailName>>)
    ELSE PathText(text.lead, [text.segs EXCEPT ![Len(text.segs)] = TailName])

\* A command line: whether its first word is cd, the text of the cd target,
\* the separator after it ("" when there is none), what else is to be run,
\* and whether the line has a line break in it (inside REST).
Command(cd, text, sep, rest, newline) ==
    [cd |-> cd, text |-> text, sep |-> sep, rest |-> rest, newline |-> newline]
BlankCmd == Command(FALSE, EmptyText, "", "", FALSE)
RunCmd == Command(FALSE, EmptyText, "", "pwd", FALSE)
CdCmd(text) == Command(TRUE, text, "", "", FALSE)
ChainCmd(text, sep, newline) == Command(TRUE, text, sep, "pwd", newline)

\* no command counts as empty
IsBlankMut(cmd) == FALSE

\* "!cmd.trim()"
IsBlank(cmd) == ~cmd.cd /\ cmd.rest = ""

\* the bare-cd pattern tried only when the chain pattern did not match
CdMatchMut(cmd) ==
    [matched |-> cmd.cd /\ cmd.sep = "", target |-> cmd.text]

\* trimCmd.match(/^cd(?:\s+(.*))?$/): "." stops at a line break and "$" is the
\* end of the text, so every one-line command whose first word is cd matches,
\* and the group is all that follows cd, separator and REST included
CdMatch(cmd) ==
    [matched |-> cmd.cd /\ ~cmd.newline,
     target |-> IF cmd.sep = "" THEN cmd.text ELSE WithTail(cmd.text)]

\* trimCmd.match(/^cd\s+([^&;]+?)\s*(?:&&|;)\s*([\s\S]*)/)
CdChainMatch(cmd) ==
    [matched |-> cmd.cd /\ cmd.sep # "", target |-> cmd.text, rest |-> cmd.rest]

\* ------------------------------------------------------------------ exec sessions

NoToken == ""

\* "String(req.body.sessionId || 'default')"
SessionKey(sid) == IF sid = NoToken THEN "default" ELSE sid

\* "{ cwd: homeDir }"; prevCwd is the empty set while it is undefined
NewSession == [cwd |-> HomeDir, prevCwd |-> {}]

\* "if (!_termSessions[sessionId]) _termSessions[sessionId] = { cwd: homeDir }"
ExecSession(sessions, key) ==
    IF key \in DOMAIN sessions THEN sessions[key] ELSE NewSession

\* the session stored under every key of the table
PutSessionMut(sessions, key, s) == [k \in DOMAIN sessions \cup {key} |-> s]

PutSession(sessions, key, s) ==
    [k \in DOMAIN sessions \cup {key} |-> IF k = key THEN s ELSE sessions[k]]

\* the whole table dropped
DeleteSessionMut(sessions, key) == [k \in {} |-> NewSession]

\* "delete _termSessions[sessionId]"
DeleteSession(sessions, key) == [k \in DOMAIN sessions \ {key} |-> sessions[k]]

\* "session.prevCwd || homeDir"
PrevOrHome(s) == IF s.prevCwd = {} THEN HomeDir ELSE CHOOSE p \in s.prevCwd : TRUE

\* the cwd override of the request (ov is empty when the request has none)
Override(s, fsys, ov) ==
    IF ov # {} /\ IsDirectory(fsys, CHOOSE p \in ov : TRUE)
    THEN [s EXCEPT !.cwd = CHOOSE p \in ov : TRUE]
    ELSE s

\* the stored cwd replaced by home on every call
FallbackMut(s, fsys) == [s EXCEPT !.cwd = HomeDir]

\* "if (!session.cwd || !fs.existsSync(session.cwd)) session.cwd = homeDir"
Fallback(s, fsys) ==
    IF ~ExistsSync(fsys, s.cwd) THEN [s EXCEPT !.cwd = HomeDir] ELSE s

\* the target of a bare cd, resolved
BareTarget(text, s) ==
    IF text = EmptyText \/ text = TildeText THEN HomeDir
    ELSE IF text = DashText THEN PrevOrHome(s)
    ELSE IF text = DotDotText THEN PathDirname(s.cwd)
    ELSE IF text.lead = "~/" THEN PathJoin(HomeDir, text.segs)
    ELSE IF text.lead = "/" THEN PathResolve(<<>>, text.segs)
    ELSE PathResolve(s.cwd, text.segs)

\* the target of the cd of a chain, resolved: "-" and ".." are not singled out
ChainTarget(text, s) ==
    IF text = EmptyText \/ text = TildeText THEN HomeDir
    ELSE IF text.lead = "~/" THEN PathJoin(HomeDir, text.segs)
    ELSE IF text.lead = "/" THEN PathResolve(<<>>, text.segs)
    ELSE PathResolve(s.cwd, text.segs)

\* the cwd set without the existence check
ChangeDirMut(s, fsys, target) == [cwd |-> target, prevCwd |-> {s.cwd}]

\* "if (fs.existsSync(resolved) && fs.statSync(resolved).isDirectory())
\*  { session.prevCwd = session.cwd; session.cwd = resolved; }"
ChangeDir(s, fsys, target) ==
    IF IsDirectory(fsys, target) THEN [cwd |-> target, prevCwd |-> {s.cwd}] ELSE s

\* ------------------------------------------------------------------ exec

\* What execSync can do: return the output (ok), or throw an error carrying
\* the exit status (NoStatus when the child was stopped by the timeout or could
\* not be started) and what was captured of stdout and stderr.
NoStatus == -1
Captured == {<<>>, <<"out">>}
FailureMessage == <<"Command failed">>
Outcome(ok, status, captured) == [ok |-> ok, status |-> status, captured |-> captured]
NoOutcome == Outcome(TRUE, 0, <<>>)
Outcomes ==
    {Outcome(TRUE, 0, c) : c \in Captured}
    \cup {Outcome(FALSE, st, c) : st \in {0, 2, NoStatus}, c \in Captured}

\* a shell cannot be started in a cwd that is not a directory
RunOutcomes(fsys, cwd) ==
    IF IsDirectory(fsys, cwd) THEN Outcomes ELSE {Outcome(FALSE, NoStatus, <<>>)}

\* the status passed on as it is
ExecCodeMut(outcome) ==
    IF outcome.ok THEN 0 ELSE IF outcome.status = NoStatus THEN 0 ELSE outcome.status

\* "code: 0" after execSync returned, "code: e.status || 1" in its catch
ExecCode(outcome) ==
    IF outcome.ok THEN 0
    ELSE IF outcome.status = NoStatus \/ outcome.status = 0 THEN 1
    ELSE outcome.status

\* "output || ''" after execSync returned, "errOutput || e.message" in its catch
ExecOutput(outcome) ==
    IF outcome.ok THEN outcome.captured
    ELSE IF outcome.captured # <<>> THEN outcome.captured
    ELSE FailureMessage

\* "-bash: cd: ${target}: No such file or directory\n"
NoSuchFile(target) == <<"-bash: cd: ">> \o target \o <<": No such file or directory">>

ExecResponse(output, code, cwd) == [output |-> output, code |-> code, cwd |-> cwd]

\* the result of a call: the session as the call leaves it, the response, and
\* the process it ran (none, or one command in one directory)
ExecResult(s, resp, ran) == [session |-> s, resp |-> resp, ran |-> ran]

\* the cwd left as it was whatever the target
BareCdMut(s, fsys, text) ==
    ExecResult(s, ExecResponse(<<>>, 0, s.cwd), <<>>)

\* the branch "if (cdMatch)" of the handler
BareCd(s, fsys, text) ==
    LET target == BareTarget(text, s)
        s2 == ChangeDir(s, fsys, target)
    IN  IF IsDirectory(fsys, target)
        THEN ExecResult(s2, ExecResponse(<<>>, 0, s2.cwd), <<>>)
        ELSE ExecResult(s2, ExecResponse(NoSuchFile(target), 1, s2.cwd), <<>>)

\* the rest of the handler: the cd of a chain, then execSync in session.cwd
RunIn(s, fsys, cmd, outcome) ==
    LET chain == CdChainMatch(cmd)
        s2 == IF chain.matched THEN ChangeDir(s, fsys, ChainTarget(chain.target, s)) ELSE s
        effectiveCmd == IF chain.matched THEN chain.rest ELSE cmd.rest
    IN  ExecResult(s2, ExecResponse(ExecOutput(outcome), ExecCode(outcome), s2.cwd),
                   <<[cmd |-> effectiveCmd, cwd |-> s2.cwd]>>)

\* POST /terminal/exec, as a function of the table, the file system, the
\* request and what execSync does if it is reached
ExecStep(sessions, fsys, sid, cmd, ov, outcome) ==
    LET s == Fallback(Override(ExecSession(sessions, SessionKey(sid)), fsys, ov), fsys)
    IN  IF IsBlank(cmd) THEN ExecResult(s, ExecResponse(<<>>, 0, s.cwd), <<>>)
        ELSE IF CdMatch(cmd).matched THEN BareCd(s, fsys, CdMatch(cmd).target)
        ELSE RunIn(s, fsys, cmd, outcome)

\* the requests
SessionIds == {NoToken, "s1"}
SessionKeys == {SessionKey(sid) : sid \in SessionIds}
Texts ==
    {EmptyText, TildeText, DashText, DotDotText,
     PathText("~/", <<"a">>), PathText("/", <<"tmp">>), PathText("", <<"a">>)}
Separators == {"&&", ";"}
Commands ==
    {BlankCmd, RunCmd}
    \cup {CdCmd(t) : t \in Texts}
    \cup {ChainCmd(t, sep, nl) : t \in Texts, sep \in Separators, nl \in BOOLEAN}
Overrides == {{}, {TmpDir}}

\* whether the call reaches execSync
Runs(cmd) == ~IsBlank(cmd) /\ ~CdMatch(cmd).matched

\* what execSync can do in this call
OutcomesOf(sessions, fsys, sid, cmd, ov) ==
    IF Runs(cmd)
    THEN RunOutcomes(fsys, ExecStep(sessions, fsys, sid, cmd, ov, NoOutcome).session.cwd)
    ELSE {NoOutcome}

\* where the last successful bare cd of a token went, for as long as no
\* override, chain or reset came after it and the directory stayed in place
CdToAfter(was, cmd, ov, res) ==
    IF cmd.cd /\ cmd.sep = "" /\ res.resp.code = 0 THEN {res.resp.cwd}
    ELSE IF ov # {} \/ (cmd.cd /\ cmd.sep # "") THEN {}
    ELSE was

\* POST /terminal/exec, up to its response or, when the command is to be run,
\* up to the call of execSync: the session is settled by then
Exec(sid, cmd, ov) ==
    /\ Idle
    /\ LET res == ExecStep(termSessions, fs, sid, cmd, ov, NoOutcome)
       IN  /\ termSessions' = PutSession(termSessions, SessionKey(sid), res.session)
           /\ cdTo' = [cdTo EXCEPT ![SessionKey(sid)] = CdToAfter(@, cmd, ov, res)]
           /\ running' = IF Runs(cmd) THEN {SessionKey(sid)} ELSE {}
    /\ UNCHANGED fs
    /\ UNCHANGED <<termVars, fileVars, launchVars>>

\* execSync returns or throws, and the handler answers
ExecReturn ==
    /\ running # {}
    /\ \E key \in running, outcome \in Outcomes :
          ExecResponse(ExecOutput(outcome), ExecCode(outcome), termSessions[key].cwd).code >= 0
    /\ running' = {}
    /\ UNCHANGED <<termSessions, fs, cdTo>>
    /\ UNCHANGED <<termVars, fileVars, launchVars>>

\* POST /terminal/reset-session
ResetSession(sid) ==
    /\ Idle
    /\ termSessions' = DeleteSession(termSessions, SessionKey(sid))
    /\ cdTo' = [cdTo EXCEPT ![SessionKey(sid)] = {}]
    /\ UNCHANGED <<fs, running>>
    /\ UNCHANGED <<termVars, fileVars, launchVars>>

\* something outside the server removes, creates or replaces what is at path p
FsChange(p, kind) ==
    /\ fs[p] # kind
    /\ fs' = [fs EXCEPT ![p] = kind]
    /\ cdTo' = [k \in DOMAIN cdTo |-> IF p \in cdTo[k] THEN {} ELSE cdTo[k]]
    /\ UNCHANGED <<termSessions, running>>
    /\ UNCHANGED <<termVars, fileVars, launchVars>>

\* the state of the exec path after init(): no session
ExecInit ==
    /\ termSessions = [k \in {} |-> NewSession]
    /\ fs = [p \in FsPaths |-> "dir"]
    /\ cdTo = [k \in SessionKeys |-> {}]
    /\ running = {}

\* ------------------------------------------------------------------ resolveSafe

\* A path string is a sequence of pieces: "/" is the separator, and pieces
\* that stand next to each other are parts of one name ("home" then "x" is
\* the name homex).
Slash == "/"
Pieces == {Slash, "..", "home", "storage", "x"}
MaxPathLen == 4     \* pieces in a requested path

\* getSafeRoot()
HomeStr == <<Slash, "home">>
StorageStr == <<Slash, "storage">>
ALLOWED_ROOTS == <<HomeStr, StorageStr>>

\* String.prototype.startsWith
StartsWith(s, prefix) ==
    Len(prefix) <= Len(s) /\ SubSeq(s, 1, Len(prefix)) = prefix

\* the names between the separators of a string, empty names dropped
RECURSIVE Segments(_, _, _)
Segments(str, done, cur) ==
    IF str = <<>> THEN (IF cur = <<>> THEN done ELSE Append(done, cur))
    ELSE IF Head(str) = Slash
         THEN Segments(Tail(str), IF cur = <<>> THEN done ELSE Append(done, cur), <<>>)
         ELSE Segments(Tail(str), done, Append(cur, Head(str)))

\* a name that is ".." takes the name before it away
RECURSIVE NormalizeSegs(_, _)
NormalizeSegs(done, rest) ==
    IF rest = <<>> THEN done
    ELSE IF Head(rest) = <<"..">>
         THEN NormalizeSegs(IF done = <<>> THEN <<>> ELSE SubSeq(done, 1, Len(done) - 1),
                            Tail(rest))
         ELSE NormalizeSegs(Append(done, Head(rest)), Tail(rest))

RECURSIVE JoinSegs(_)
JoinSegs(segs) ==
    IF segs = <<>> THEN <<>> ELSE <<Slash>> \o Head(segs) \o JoinSegs(Tail(segs))

\* path.resolve(base, str), base being absolute
ResolveString(base, str) ==
    LET segs == IF str # <<>> /\ Head(str) = Slash
                THEN Segments(str, <<>>, <<>>)
                ELSE Segments(base, <<>>, <<>>) \o Segments(str, <<>>, <<>>)
        norm == NormalizeSegs(<<>>, segs)
    IN  IF norm = <<>> THEN <<Slash>> ELSE JoinSegs(norm)

\* requestedPath.replace(/^\/\//, '/')
ReplaceLeadingSlashes(str) ==
    IF Len(str) >= 2 /\ str[1] = Slash /\ str[2] = Slash THEN Tail(str) ELSE str

\* resolveSafe: the path it resolves the request to
ResolvedPath(requested) ==
    IF /\ requested # <<>>
       /\ (StartsWith(requested, StorageStr) \/ StartsWith(requested, <<Slash>> \o StorageStr))
    THEN ResolveString(<<Slash>>, ReplaceLeadingSlashes(requested))
    ELSE ResolveString(HomeStr, requested)

\* "ALLOWED_ROOTS.some(root => resolved.startsWith(root))"
IsAllowed(resolved) ==
    \E i \in DOMAIN ALLOWED_ROOTS : StartsWith(resolved, ALLOWED_ROOTS[i])

\* resolveSafe: it returns the path (ok) or throws the access-denied error
ResolveSafe(requested) ==
    [requested |-> requested,
     ok |-> IsAllowed(ResolvedPath(requested)),
     path |-> ResolvedPath(requested)]

RequestedPaths == UNION {[1..n -> Pieces] : n \in 0..MaxPathLen}

\* a file route calls resolveSafe on a path of its request
ResolveSafeCall(requested) ==
    /\ Idle
    /\ lastResolve' = <<ResolveSafe(requested)>>
    /\ UNCHANGED <<termVars, execVars, launchVars>>

FileInit == lastResolve = <<>>

\* ------------------------------------------------------------------ the launcher

MaxStarts == 20          \* workers the launcher starts
MaxRestartRequests == 2  \* POST /restart requests a worker serves

\* the codes a worker exits with; NoStatus is a death by signal (code === null)
ExitCodes == {0, 1, 2, NoStatus}

\* standalone.js after startServer() at its last line: one worker running
LaunchInit ==
    launcher = [alive |-> TRUE, code |-> 0, workers |-> 1, started |-> 1,
                timer |-> FALSE, exitTimers |-> 0]

\* POST /restart in the worker: "setTimeout(() => process.exit(0), 500)"
RestartRequest ==
    /\ launcher.workers = 1
    /\ launcher.exitTimers < MaxRestartRequests
    /\ launcher' = [launcher EXCEPT !.exitTimers = @ + 1]
    /\ UNCHANGED <<termVars, execVars, fileVars>>

\* every exit of the worker is followed by a new start
OnWorkerExitMut(l, code) ==
    [l EXCEPT !.workers = @ - 1, !.exitTimers = 0, !.timer = TRUE]

\* child.on('exit', code => ...): "if (code === 0) setTimeout(startServer, 1500)
\* else process.exit(code || 1)"
OnWorkerExit(l, code) ==
    IF code = 0
    THEN [l EXCEPT !.workers = @ - 1, !.exitTimers = 0, !.timer = TRUE]
    ELSE [l EXCEPT !.workers = @ - 1, !.exitTimers = 0, !.alive = FALSE,
                   !.code = IF code = NoStatus THEN 1 ELSE code]

\* the worker exits: with code 0 by the process.exit(0) a restart request has
\* scheduled, with another code or by a signal at any time
WorkerExit(code) ==
    /\ launcher.alive
    /\ launcher.workers = 1
    /\ code = 0 => launcher.exitTimers > 0 /\ launcher.started < MaxStarts
    /\ launcher' = OnWorkerExit(launcher, code)
    /\ UNCHANGED <<termVars, execVars, fileVars>>

\* the setTimeout(startServer, 1500) callback
StartServer ==
    /\ launcher.alive
    /\ launcher.timer
    /\ launcher' = [launcher EXCEPT !.timer = FALSE, !.workers = @ + 1, !.started = @ + 1]
    /\ UNCHANGED <<termVars, execVars, fileVars>>

\* ------------------------------------------------------------------ Init

Budget(s, d, c) ==
    [spawns |-> s, chunks |-> d, clients |-> c, errors |-> MaxErrors,
     stdinCloses |-> MaxStdinCloses, pings |-> MaxPings]

\* the state after init(): no session, no connection, the counter at 0
Fresh(b) ==
    /\ termIdCounter = 0
    /\ terminals = <<>>
    /\ terms = <<>>
    /\ procs = <<>>
    /\ conns = <<>>
    /\ nOut = 0
    /\ appended = <<>>
    /\ killed = {}
    /\ budget = b
    /\ ExecInit
    /\ FileInit
    /\ LaunchInit

Init == Fresh(Budget(MaxSpawns, MaxChunks, MaxClients))

\* ------------------------------------------------------------------ term objects

\* _createTerminal: "const term = { id, proc, buffer: [], clients: [], alive: true }"
NewTerm(id) == [id |-> id, buffer |-> <<>>, clients |-> <<>>, alive |-> TRUE]

\* the child behind a fresh term: running, stdin writable, the 200 ms
\* initialisation timer armed; failed tells a child that could not be created
\* (ENOENT and the like: spawn returns the object and emits 'error' on the
\* next tick)
NewProc ==
    [exited |-> FALSE, stdinWritable |-> TRUE, initTimer |-> "pending", failed |-> FALSE]

\* the id taken from the size of the table instead of the counter
SpawnIdMut == Cardinality(DOMAIN terminals) + 1

\* "const id = String(++_termIdCounter)"
SpawnId == termIdCounter + 1

\* push, on the term: "term.buffer.push(text)" and the trim
PushTerm(t, text) == [t EXCEPT !.buffer = TrimBuffer(Append(@, text))]

\* proc.on('error'), on the term: "term.alive = false; push(msg)"
ErrorTerm(t) == PushTerm([t EXCEPT !.alive = FALSE], ErrorMsg)

\* the exit handler without "term.alive = false"
ExitTermMut(t) == [t EXCEPT !.buffer = Append(@, ExitMsg)]

\* proc.on('exit'), on the term: "term.alive = false; term.buffer.push(msg)"
ExitTerm(t) == [t EXCEPT !.alive = FALSE, !.buffer = Append(@, ExitMsg)]

\* kill also drops the subscribers of the session
KillTermClearMut(t) == [t EXCEPT !.alive = FALSE, !.clients = <<>>]

\* POST /terminal/kill, on the term: "term.alive = false"
KillTerm(t) == [t EXCEPT !.alive = FALSE]

\* "delete _terminals[id]"
DeleteKey(tbl, id) == [k \in DOMAIN tbl \ {id} |-> tbl[k]]

\* "_terminals[id] = term"
SetKey(tbl, id, ref) == [k \in DOMAIN tbl \cup {id} |-> IF k = id THEN ref ELSE tbl[k]]

\* GET /terminal/list: "Object.values(_terminals).map(t => ({id, alive}))"
ListResult(tbl, ts) == {[id |-> ts[tbl[k]].id, alive |-> ts[tbl[k]].alive] : k \in DOMAIN tbl}

\* "term.buffer.length > 1" written for "> 0": a one-chunk buffer is not replayed
ReplayMut(t) ==
    (IF Len(t.buffer) > 1 THEN <<Event("history", Join(t.buffer))>> ELSE <<>>)
    \o (IF ~t.alive THEN <<Event("exit", AlreadyExitedMsg)>> ELSE <<>>)

\* the replay without the exit event of a session that is not alive
ReplayNoExitMut(t) ==
    IF Len(t.buffer) > 0 THEN <<Event("history", Join(t.buffer))>> ELSE <<>>

\* GET /terminal/stream: what is written on a new response before it is registered
Replay(t) ==
    (IF Len(t.buffer) > 0 THEN <<Event("history", Join(t.buffer))>> ELSE <<>>)
    \o (IF ~t.alive THEN <<Event("exit", AlreadyExitedMsg)>> ELSE <<>>)

\* ------------------------------------------------------------------ requests

\* the ids a request may name: every id assigned so far and one never assigned
RequestIds == 1..(termIdCounter + 1)
NoData == "undefined"
Datas == {"x", NoData}
NoSignal == ""
Signals == {NoSignal, "SIGTERM"}
SigAttempt(to, sig, ok) == [to |-> to, sig |-> sig, ok |-> ok]
Response(resp) == [resp |-> resp, wrote |-> FALSE, sigs |-> <<>>, signal |-> NoSignal]

\* what _termSpawn can do: start the shell; fail to create it and say so by an
\* 'error' event on the next tick (shell or cwd missing); throw
SpawnOutcomes == {"started", "failed", "thrown"}

\* the response of POST /terminal/spawn
SpawnResult(outcome) ==
    IF outcome = "thrown" THEN [status |-> 500, id |-> 0, alive |-> FALSE]
    ELSE [status |-> 200, id |-> SpawnId, alive |-> TRUE]

\* POST /terminal/spawn, the counter having moved before _termSpawn is called.
\* The 'error' event of a failed creation is emitted by process.nextTick, so
\* its handler runs before any other request or event is served: it is part
\* of this step (no subscriber can be attached yet, nothing is fanned out).
Spawn(outcome) ==
    /\ Idle
    /\ budget.spawns > 0
    /\ budget' = [budget EXCEPT !.spawns = @ - 1]
    /\ termIdCounter' = termIdCounter + 1
    /\ SpawnResult(outcome).status \in {200, 500}
    /\ IF outcome = "thrown"
       THEN UNCHANGED <<terminals, terms, procs, appended>>
       ELSE /\ terms' = Append(terms, IF outcome = "failed"
                                      THEN ErrorTerm(NewTerm(SpawnId))
                                      ELSE NewTerm(SpawnId))
            /\ procs' = Append(procs, [NewProc EXCEPT !.failed = (outcome = "failed")])
            /\ appended' = Append(appended, IF outcome = "failed" THEN <<ErrorMsg>> ELSE <<>>)
            /\ terminals' = SetKey(terminals, SpawnId, Len(terms) + 1)
    /\ UNCHANGED <<conns, nOut, killed>>
    /\ UNCHANGED <<execVars, fileVars, launchVars>>

\* GET /terminal/list: reads the table, changes nothing; it answers ListResult
List ==
    /\ Idle
    /\ ListResult(terminals, terms) \subseteq [id : Int, alive : BOOLEAN]
    /\ UNCHANGED vars

\* the handler without "if (!term.alive) return"
InputResultMut(id, data) ==
    IF id \notin DOMAIN terminals THEN Response("not_found")
    ELSE IF ~procs[terminals[id]].stdinWritable THEN Response("not_writable")
    ELSE IF data = NoData THEN Response("write_failed")
    ELSE [Response("ok") EXCEPT !.wrote = TRUE]

\* the response of POST /terminal/input, and whether stdin.write was reached
InputResult(id, data) ==
    IF id \notin DOMAIN terminals THEN Response("not_found")
    ELSE IF ~terms[terminals[id]].alive THEN Response("not_alive")
    ELSE IF ~procs[terminals[id]].stdinWritable THEN Response("not_writable")
    ELSE IF data = NoData THEN Response("write_failed")
    ELSE [Response("ok") EXCEPT !.wrote = TRUE]

\* POST /terminal/input: changes nothing of the server's state
Input(id, data) ==
    /\ Idle
    /\ InputResult(id, data).resp # ""
    /\ UNCHANGED vars

\* both deliveries attempted whatever the first one did
SignalResultMut(id, sig, groupOk, procOk) ==
    IF id \notin DOMAIN terminals \/ ~terms[terminals[id]].alive
    THEN Response("not_found")
    ELSE LET s == IF sig = NoSignal THEN "SIGINT" ELSE sig
         IN  [Response("ok") EXCEPT
                !.signal = s,
                !.sigs = <<SigAttempt("group", s, groupOk), SigAttempt("proc", s, procOk)>>]

\* the response of POST /terminal/signal and the deliveries it attempted:
\* process.kill(-pid, sig) and, in its catch, term.proc.kill(sig), which may
\* throw or fail as well (procOk = FALSE)
SignalResult(id, sig, groupOk, procOk) ==
    IF id \notin DOMAIN terminals \/ ~terms[terminals[id]].alive
    THEN Response("not_found")
    ELSE LET s == IF sig = NoSignal THEN "SIGINT" ELSE sig
         IN  [Response("ok") EXCEPT
                !.signal = s,
                !.sigs = IF groupOk
                         THEN <<SigAttempt("group", s, TRUE)>>
                         ELSE <<SigAttempt("group", s, FALSE), SigAttempt("proc", s, procOk)>>]

\* POST /terminal/signal: changes nothing of the server's state
Signal(id, sig, groupOk, procOk) ==
    /\ Idle
    /\ SignalResult(id, sig, groupOk, procOk).resp # ""
    /\ UNCHANGED vars

\* "term.alive = false" outside "if (term)": an unknown id makes the handler fail
\* what kill attempts on a registered session: "process.kill(-term.proc.pid,
\* 'SIGKILL')", then "term.proc.kill('SIGKILL')". A shell that never started
\* has no pid (the first call throws before any signal, the second has no
\* handle); a process whose exit was observed has lost its handle, so that
\* the second call sends nothing, while the first still signals the group of
\* the pid it had.
KillSigs(id, groupOk) ==
    IF procs[terminals[id]].failed THEN <<>>
    ELSE IF procs[terminals[id]].exited
         THEN <<SigAttempt("group", "SIGKILL", groupOk)>>
         ELSE <<SigAttempt("group", "SIGKILL", groupOk),
                SigAttempt("proc", "SIGKILL", TRUE)>>

KillResultMut(id, groupOk) ==
    IF id \in DOMAIN terminals
    THEN [Response("ok") EXCEPT !.sigs = KillSigs(id, groupOk)]
    ELSE Response("error")

\* the response of POST /terminal/kill and the deliveries it attempted
KillResult(id, groupOk) ==
    IF id \in DOMAIN terminals
    THEN [Response("ok") EXCEPT !.sigs = KillSigs(id, groupOk)]
    ELSE Response("ok")

\* kill without "delete _terminals[req.body.id]"
KillTableMut(tbl, id) == tbl

\* POST /terminal/kill, on the table: "if (term) delete _terminals[req.body.id]"
KillTable(tbl, id) == IF id \in DOMAIN tbl THEN DeleteKey(tbl, id) ELSE tbl

\* POST /terminal/kill, on the term objects: "if (term) term.alive = false"
KillTerms(tbl, ts, id) ==
    IF id \in DOMAIN tbl THEN [ts EXCEPT ![tbl[id]] = KillTerm(@)] ELSE ts

\* POST /terminal/kill
Kill(id) ==
    /\ Idle
    /\ KillResult(id, TRUE).resp = "ok"
    /\ terminals' = KillTable(terminals, id)
    /\ terms' = KillTerms(terminals, terms, id)
    /\ killed' = IF id \in DOMAIN terminals THEN killed \cup {id} ELSE killed
    /\ UNCHANGED <<termIdCounter, procs, conns, nOut, appended, budget>>
    /\ UNCHANGED <<execVars, fileVars, launchVars>>

\* the response object a stream request opens on term r
NewConn(r) ==
    [term |-> r, log |-> Replay(terms[r]), open |-> TRUE,
     subAt |-> Len(appended[r]), keptAt |-> Len(terms[r].buffer),
     aliveAt |-> terms[r].alive]

\* GET /terminal/stream; an unknown id is answered 404 and changes nothing
Subscribe(id) ==
    /\ Idle
    /\ budget.clients > 0
    /\ IF id \notin DOMAIN terminals
       THEN UNCHANGED <<terms, conns, budget>>
       ELSE /\ conns' = Append(conns, NewConn(terminals[id]))
            /\ terms' = [terms EXCEPT ![terminals[id]].clients = Append(@, Len(conns) + 1)]
            /\ budget' = [budget EXCEPT !.clients = @ - 1]
    /\ UNCHANGED <<termIdCounter, terminals, procs, nOut, appended, killed>>
    /\ UNCHANGED <<execVars, fileVars, launchVars>>

\* "c === res" written for "c !== res": every other subscriber is dropped
RemoveClientMut(clients, c) == SelectSeq(clients, LAMBDA x : x = c)

\* the close handler leaves the subscriber set as it is
RemoveClientKeepMut(clients, c) == clients

\* "term.clients.filter(c => c !== res)"
RemoveClient(clients, c) == SelectSeq(clients, LAMBDA x : x # c)

\* req.on('close')
ClientClose(c) ==
    /\ Idle
    /\ conns[c].open
    /\ conns' = [conns EXCEPT ![c].open = FALSE]
    /\ terms' = [terms EXCEPT ![conns[c].term].clients = RemoveClient(@, c)]
    /\ UNCHANGED <<termIdCounter, terminals, procs, nOut, appended, killed, budget>>
    /\ UNCHANGED <<execVars, fileVars, launchVars>>

\* the ": ping" comment line of the keep-alive
Ping == [type |-> "ping", data |-> <<>>]

\* the setInterval(..., 15000) callback of a stream response; the interval is
\* cleared when the request closes, and by nothing else
PingTick(c) ==
    /\ Idle
    /\ conns[c].open
    /\ budget.pings > 0
    /\ budget' = [budget EXCEPT !.pings = @ - 1]
    /\ conns' = [conns EXCEPT ![c].log = WriteEvent(@, Ping)]
    /\ UNCHANGED <<termIdCounter, terminals, terms, procs, nOut, appended, killed>>
    /\ UNCHANGED <<execVars, fileVars, launchVars>>

\* ------------------------------------------------------------------ child process events

\* proc.stdout.on('data') / proc.stderr.on('data'): push(chunk)
ProcData(r) ==
    /\ Idle
    /\ ~procs[r].failed
    /\ budget.chunks > 0
    /\ budget' = [budget EXCEPT !.chunks = @ - 1]
    /\ nOut' = nOut + 1
    /\ terms' = [terms EXCEPT ![r] = PushTerm(@, Text(nOut + 1))]
    /\ conns' = FanOut(conns, terms[r].clients, Event("output", Text(nOut + 1)))
    /\ appended' = [appended EXCEPT ![r] = Append(@, Text(nOut + 1))]
    /\ UNCHANGED <<termIdCounter, terminals, procs, killed>>
    /\ UNCHANGED <<execVars, fileVars, launchVars>>

\* proc.on('error')
ProcError(r) ==
    /\ Idle
    /\ ~procs[r].failed
    /\ ~procs[r].exited
    /\ budget.errors > 0
    /\ budget' = [budget EXCEPT !.errors = @ - 1]
    /\ terms' = [terms EXCEPT ![r] = ErrorTerm(@)]
    /\ conns' = FanOut(FanOut(conns, terms[r].clients, Event("output", ErrorMsg)),
                       terms[r].clients, Event("error", ErrorMsg))
    /\ appended' = [appended EXCEPT ![r] = Append(@, ErrorMsg)]
    /\ UNCHANGED <<termIdCounter, terminals, procs, nOut, killed>>
    /\ UNCHANGED <<execVars, fileVars, launchVars>>

\* proc.on('exit')
ProcExit(r) ==
    /\ Idle
    /\ ~procs[r].failed
    /\ ~procs[r].exited
    /\ procs' = [procs EXCEPT ![r].exited = TRUE]
    /\ terms' = [terms EXCEPT ![r] = ExitTerm(@)]
    /\ conns' = FanOut(conns, terms[r].clients, Event("exit", ExitMsg))
    /\ appended' = [appended EXCEPT ![r] = Append(@, ExitMsg)]
    /\ UNCHANGED <<termIdCounter, terminals, nOut, killed, budget>>
    /\ UNCHANGED <<execVars, fileVars, launchVars>>

\* the child's stdin stops being writable (closed by the child, or a broken pipe)
ProcStdinClose(r) ==
    /\ Idle
    /\ procs[r].stdinWritable
    /\ budget.stdinCloses > 0
    /\ budget' = [budget EXCEPT !.stdinCloses = @ - 1]
    /\ procs' = [procs EXCEPT ![r].stdinWritable = FALSE]
    /\ UNCHANGED <<termIdCounter, terminals, terms, conns, nOut, appended, killed>>
    /\ UNCHANGED <<execVars, fileVars, launchVars>>

\* the setTimeout(..., 200) callback of _createTerminal
InitTimer(r) ==
    /\ Idle
    /\ procs[r].initTimer = "pending"
    /\ procs' = [procs EXCEPT ![r].initTimer =
                    IF terms[r].alive /\ procs[r].stdinWritable THEN "wrote" ELSE "skipped"]
    /\ UNCHANGED <<termIdCounter, terminals, terms, conns, nOut, appended, killed, budget>>
    /\ UNCHANGED <<execVars, fileVars, launchVars>>

\* ------------------------------------------------------------------ specification

Requests ==
    \/ List
    \/ \E id \in RequestIds, data \in Datas : Input(id, data)
    \/ \E id \in RequestIds, sig \in Signals, groupOk, procOk \in BOOLEAN :
            Signal(id, sig, groupOk, procOk)
    \/ \E id \in RequestIds : Kill(id)
    \/ \E id \in RequestIds : Subscribe(id)

Events ==
    \/ \E c \in DOMAIN conns : ClientClose(c)
    \/ \E c \in DOMAIN conns : PingTick(c)
    \/ \E r \in DOMAIN terms : ProcData(r)
    \/ \E r \in DOMAIN terms : ProcError(r)
    \/ \E r \in DOMAIN terms : ProcExit(r)
    \/ \E r \in DOMAIN terms : ProcStdinClose(r)
    \/ \E r \in DOMAIN terms : InitTimer(r)

Next ==
    \/ \E outcome \in SpawnOutcomes : Spawn(outcome)
    \/ Requests
    \/ Events

Spec == Init /\ [][Next]_vars

\* One session, more output and more subscribers.
InitStream == Fresh(Budget(1, StreamChunks, StreamClients))

SpecStream == InitStream /\ [][Next]_vars

\* A session in the middle of a burst of output: spawned as id 1, its child has
\* emitted BUF_MAX - 1 chunks so far, nobody has subscribed yet and the
\* initialisation timer has fired.  No further session is spawned.
BurstLen == BUF_MAX - 1
BurstBuffer == [i \in 1..BurstLen |-> Text(i)]

InitBurst ==
    /\ termIdCounter = 1
    /\ terminals = SetKey(<<>>, 1, 1)
    /\ terms = <<[NewTerm(1) EXCEPT !.buffer = BurstBuffer]>>
    /\ procs = <<[NewProc EXCEPT !.initTimer = "wrote"]>>
    /\ conns = <<>>
    /\ nOut = BurstLen
    /\ appended = <<BurstBuffer>>
    /\ killed = {}
    /\ budget = Budget(0, BurstChunks, BurstClients)
    /\ ExecInit
    /\ FileInit
    /\ LaunchInit

\* The buffer and its replay, from a fresh server and from the burst: the
\* requests and events that touch a session's buffer or its subscribers.
InitBuffer == Fresh(Budget(1, BurstChunks, BurstClients)) \/ InitBurst

NextBuffer ==
    \/ \E outcome \in SpawnOutcomes : Spawn(outcome)
    \/ \E id \in RequestIds : Kill(id)
    \/ \E id \in RequestIds : Subscribe(id)
    \/ \E c \in DOMAIN conns : ClientClose(c)
    \/ \E r \in DOMAIN terms : ProcData(r)
    \/ \E r \in DOMAIN terms : ProcError(r)
    \/ \E r \in DOMAIN terms : ProcExit(r)

SpecBuffer == InitBuffer /\ [][NextBuffer]_vars

\* The same requests and events on one session with two subscribers, where
\* the exit of a process that kill has signalled is eventually observed:
\* SIGKILL ends the process, and Node then emits 'exit'.
InitKill == Fresh(Budget(1, MaxChunks, StreamClients))

KilledExit(r) ==
    /\ r \in DOMAIN terms
    /\ terms[r].id \in killed
    /\ ProcExit(r)

SpecKill ==
    InitKill /\ [][NextBuffer]_vars /\ \A r \in 1..MaxSpawns : WF_vars(KilledExit(r))

\* The one-shot command path: it shares no state with the terminal sessions.
NextExec ==
    \/ \E sid \in SessionIds, cmd \in Commands, ov \in Overrides : Exec(sid, cmd, ov)
    \/ ExecReturn
    \/ \E sid \in SessionIds : ResetSession(sid)
    \/ \E p \in FsPaths, kind \in FsKinds : FsChange(p, kind)

SpecExec == Init /\ [][NextExec]_vars

\* The terminal sessions and the exec calls side by side: one terminal session
\* with one chunk and one subscriber, and for each token a command to run and
\* a cd.
InitRun == Fresh(Budget(1, 1, 1))

RunCommands == {RunCmd, CdCmd(PathText("/", <<"tmp">>))}

NextRun ==
    \/ Next
    \/ \E sid \in SessionIds, cmd \in RunCommands : Exec(sid, cmd, {})
    \/ ExecReturn

SpecRun == InitRun /\ [][NextRun]_vars

\* The path check of the file routes.
NextFiles == \E requested \in RequestedPaths : ResolveSafeCall(requested)

SpecFiles == Init /\ [][NextFiles]_vars

\* The launcher and its worker; a restart timer that is armed fires.
NextLauncher ==
    \/ RestartRequest
    \/ \E code \in ExitCodes : WorkerExit(code)
    \/ StartServer

SpecLauncher == Init /\ [][NextLauncher]_vars /\ WF_vars(StartServer)

\* ------------------------------------------------------------------ claims, helpers

\* s is a contiguous suffix of t
IsSuffix(s, t) ==
    /\ Len(s) <= Len(t)
    /\ \A i \in 1..Len(s) : s[i] = t[Len(t) - Len(s) + i]

\* the concatenation of one-token chunks, written out
Concat1(chunks) == [i \in 1..Len(chunks) |-> chunks[i][1]]

\* what was appended to the session of connection c before c subscribed
ChunksBefore(c) == SubSeq(appended[conns[c].term], 1, conns[c].subAt)

\* the buffer length after n pushes on an empty buffer
Retained(n) ==
    IF n <= BUF_MAX THEN n
    ELSE BUF_KEEP + ((n - BUF_MAX - 1) % (BUF_MAX - BUF_KEEP + 1))

\* the tokens of the output events connection c received after its first event
LaterOutputs(c) ==
    {conns[c].log[j].data[1] :
        j \in {k \in 2..Len(conns[c].log) : conns[c].log[k].type = "output"}}

\* ------------------------------------------------------------------ C1

\* how often token tok occurs in the history events connection c received
InHistory(c, tok) ==
    Cardinality({<<j, p>> \in (DOMAIN conns[c].log) \X (DOMAIN appended[conns[c].term]) :
        /\ conns[c].log[j].type = "history"
        /\ p \in DOMAIN conns[c].log[j].data
        /\ conns[c].log[j].data[p] = tok})

\* how many output events carrying exactly the chunk text connection c received
AsOutput(c, text) ==
    Cardinality({j \in DOMAIN conns[c].log :
        conns[c].log[j].type = "output" /\ conns[c].log[j].data = text})

\* C1: every output chunk of a session reaches each subscriber exactly once:
\* a chunk appended before the subscribe step (and still in the buffer then)
\* is seen once inside the history replay and never as a live output event;
\* a chunk appended after it is seen as exactly one live output event (by a
\* subscriber whose connection is still open) and never inside a history.
C1_EachChunkExactlyOnce ==
    \A c \in DOMAIN conns :
        LET all == appended[conns[c].term]
            dropped == conns[c].subAt - conns[c].keptAt
        IN  \A i \in DOMAIN all :
                IsOutputChunk(all[i]) =>
                    IF i <= conns[c].subAt
                    THEN /\ AsOutput(c, all[i]) = 0
                         /\ InHistory(c, all[i][1]) = (IF i > dropped THEN 1 ELSE 0)
                    ELSE /\ InHistory(c, all[i][1]) = 0
                         /\ AsOutput(c, all[i]) <= 1
                         /\ conns[c].open => AsOutput(c, all[i]) = 1

\* two open subscribers of one session, the second attached between two chunks
C1_Witness ==
    \E c, d \in DOMAIN conns :
        /\ c # d
        /\ conns[c].term = conns[d].term
        /\ conns[c].open /\ conns[d].open
        /\ conns[c].subAt < conns[d].subAt
        /\ Len(appended[conns[d].term]) > conns[d].subAt
        /\ \A i \in DOMAIN appended[conns[d].term] :
              IsOutputChunk(appended[conns[d].term][i])

\* ------------------------------------------------------------------ C3

\* the positions of the output events of process chunks in the log of c
ChunkEvents(c) ==
    {j \in DOMAIN conns[c].log :
        conns[c].log[j].type = "output" /\ IsOutputChunk(conns[c].log[j].data)}

\* C3: a subscriber receives the output events in the order the chunks were
\* produced; two subscribers of one session receive the events they share in
\* the same relative order; a history replay comes before every other event.
C3_OrderedDelivery ==
    /\ \A c \in DOMAIN conns :
          /\ \A j, k \in ChunkEvents(c) :
                j < k => conns[c].log[j].data[1] < conns[c].log[k].data[1]
          /\ \A j \in DOMAIN conns[c].log :
                conns[c].log[j].type = "history" => j = 1
    /\ \A c, d \in DOMAIN conns :
          conns[c].term = conns[d].term =>
              \A j, k \in ChunkEvents(c) : \A m, n \in ChunkEvents(d) :
                  (/\ conns[c].log[j].data = conns[d].log[m].data
                   /\ conns[c].log[k].data = conns[d].log[n].data)
                  => (j < k <=> m < n)

\* two subscribers of one session that both received a history and then two
\* live chunks
C3_Witness ==
    \E c, d \in DOMAIN conns :
        /\ c # d
        /\ conns[c].term = conns[d].term
        /\ conns[c].log # <<>> /\ conns[c].log[1].type = "history"
        /\ Cardinality(ChunkEvents(c)) >= 2
        /\ Cardinality(ChunkEvents(d)) >= 2

\* ------------------------------------------------------------------ C2

\* C2 as stated, for N >= 1 (with N = 0 there is nothing to replay): with N
\* output events before a subscribe on a live session, the first event the
\* subscriber receives is a history event holding the concatenation of those
\* N chunks, and no later output event repeats a chunk of that history.
C2_HistoryIsAllChunksBefore ==
    \A c \in DOMAIN conns :
        (conns[c].aliveAt /\ conns[c].subAt >= 1)
        => /\ Len(conns[c].log) >= 1
           /\ conns[c].log[1] = Event("history", Concat1(ChunksBefore(c)))
           /\ LaterOutputs(c) \cap Range(conns[c].log[1].data) = {}

\* C2 (amended): with N >= 1 output events before a subscribe on a live
\* session, the first event the subscriber receives is a history event
\* holding the concatenation of the chunks still in the buffer, which are the
\* last Retained(N) of the N chunks (all of them while N <= 5000); with
\* N = 0 no history event is sent; no later output event repeats a chunk of
\* the history.
C2_HistoryIsRetainedChunks ==
    \A c \in DOMAIN conns :
        conns[c].aliveAt
        => LET n == conns[c].subAt
               log == conns[c].log
           IN  /\ n = 0 => \A j \in DOMAIN log : log[j].type # "history"
               /\ n >= 1 =>
                    /\ Len(log) >= 1
                    /\ log[1] = Event("history",
                            Concat1(SubSeq(ChunksBefore(c), n - Retained(n) + 1, n)))
                    /\ \A j \in 2..Len(log) : log[j].type # "history"
                    /\ LaterOutputs(c) \cap Range(log[1].data) = {}

\* a subscriber that attached to a live session after a truncation and then
\* received a live chunk
C2_Witness ==
    \E c \in DOMAIN conns :
        /\ conns[c].aliveAt
        /\ conns[c].subAt > BUF_MAX
        /\ LaterOutputs(c) # {}

\* ------------------------------------------------------------------ C4

\* C4 as stated: a session's buffer holds at most 5000 chunks in every
\* reachable state.
C4_BufferAtMost5000 ==
    \A r \in DOMAIN terms : Len(terms[r].buffer) <= BUF_MAX

\* ------------------------------------------------------------------ C5

\* C5 as stated, on sessions that are still alive (only output chunks were
\* appended): once more than 5000 chunks were appended in total, the buffer
\* holds at most 3000 chunks.
C5_Over5000TotalKeepsAtMost3000 ==
    \A r \in DOMAIN terms :
        (terms[r].alive /\ Len(appended[r]) > BUF_MAX)
        => Len(terms[r].buffer) <= BUF_KEEP

\* C5 (amended): whenever an output chunk is appended to a buffer that
\* already holds 5000 chunks or more, the buffer is cut to exactly 3000
\* chunks, the most recent ones appended.
C5_PushOnFullBufferKeeps3000 ==
    [][\A r \in DOMAIN terms :
          (/\ Len(appended'[r]) = Len(appended[r]) + 1
           /\ IsOutputChunk(appended'[r][Len(appended'[r])])
           /\ Len(terms[r].buffer) >= BUF_MAX)
          => /\ Len(terms'[r].buffer) = BUF_KEEP
             /\ IsSuffix(terms'[r].buffer, appended'[r])]_vars

\* a buffer that was just cut to 3000 chunks
C5_Witness ==
    \E r \in DOMAIN terms :
        /\ Len(appended[r]) > BUF_MAX
        /\ Len(terms[r].buffer) = BUF_KEEP

\* ------------------------------------------------------------------ C6

\* C6: in every reachable state a session's buffer is a contiguous suffix of
\* the sequence of all chunks ever appended to it (output chunks and notices).
C6_BufferIsSuffixOfAppended ==
    \A r \in DOMAIN terms : IsSuffix(terms[r].buffer, appended[r])

\* a buffer that was truncated and has grown again since
C6_Witness ==
    \E r \in DOMAIN terms :
        /\ Len(terms[r].buffer) < Len(appended[r])
        /\ Len(terms[r].buffer) > BUF_KEEP

\* ------------------------------------------------------------------ C7

\* C7: a session whose shell was started is alive when it is created; a
\* session is not alive once its process's exit or error was observed or once
\* it was killed; and its alive flag never goes back from false to true.
C7_AliveIsOneWay ==
    /\ [](\A r \in DOMAIN terms :
            (\/ procs[r].exited
             \/ ErrorMsg \in Range(appended[r])
             \/ terms[r].id \in killed)
            => ~terms[r].alive)
    /\ [][/\ \A r \in DOMAIN terms : ~terms[r].alive => ~terms'[r].alive
          /\ \A r \in DOMAIN terms' \ DOMAIN terms :
                ~procs'[r].failed => terms'[r].alive]_vars

\* one session dead by exit and still registered, another one killed
C7_Witness ==
    \E r, q \in DOMAIN terms :
        /\ procs[r].exited /\ terms[r].id \in DOMAIN terminals
        /\ terms[q].id \in killed /\ ~procs[q].exited

\* ------------------------------------------------------------------ C8

\* C8: once kill found id registered, list does not return id, and every
\* input or signal request on id is answered with a not-found / not-alive
\* error, writes nothing to the process and attempts no signal delivery.
C8_KilledIdIsGone ==
    \A id \in killed :
        /\ \A e \in ListResult(terminals, terms) : e.id # id
        /\ \A data \in Datas :
              /\ InputResult(id, data).resp \in {"not_found", "not_alive"}
              /\ ~InputResult(id, data).wrote
        /\ \A sig \in Signals, groupOk, procOk \in BOOLEAN :
              /\ SignalResult(id, sig, groupOk, procOk).resp = "not_found"
              /\ SignalResult(id, sig, groupOk, procOk).sigs = <<>>

\* a killed session whose process has not exited, beside a live registered one
C8_Witness ==
    /\ \E r \in DOMAIN terms : terms[r].id \in killed /\ ~procs[r].exited
    /\ \E e \in ListResult(terminals, terms) : e.alive

\* ------------------------------------------------------------------ C9

\* C9: kill answers ok for every id; on an id that is not registered (never
\* assigned, or already killed) it signals nothing and leaves the table and
\* every term object as they are; killing an id twice gives the table and
\* the term objects that killing it once gives.
C9_KillIdempotent ==
    \A id \in RequestIds, groupOk \in BOOLEAN :
        LET tbl1 == KillTable(terminals, id)
            ts1 == KillTerms(terminals, terms, id)
        IN  /\ KillResult(id, groupOk).resp = "ok"
            /\ id \notin DOMAIN terminals =>
                  /\ tbl1 = terminals
                  /\ ts1 = terms
                  /\ KillResult(id, groupOk).sigs = <<>>
            /\ KillTable(tbl1, id) = tbl1
            /\ KillTerms(tbl1, ts1, id) = ts1

\* an id that was killed, beside a session that is still registered and alive
C9_Witness ==
    /\ killed # {}
    /\ \E e \in ListResult(terminals, terms) : e.alive

\* ------------------------------------------------------------------ C10

\* C10: a step that creates a session gives it an id greater than the id of
\* every session created before, greater than the counter (so than every id
\* a failed spawn used up) and registers it, so that list then returns the
\* id, with alive = true when the shell was started; a key of the table stays bound to the same term
\* object for as long as it is in the table, and that object carries the key
\* as its id.
C10_FreshIncreasingIds ==
    /\ [](\A k \in DOMAIN terminals : terms[terminals[k]].id = k)
    /\ [][/\ Len(terms') > Len(terms) =>
                LET new == terms'[Len(terms')]
                IN  /\ \A r \in DOMAIN terms : terms[r].id < new.id
                    /\ new.id > termIdCounter
                    /\ new.id \notin killed
                    /\ \E e \in ListResult(terminals', terms') : e.id = new.id
                    /\ ~procs'[Len(terms')].failed =>
                          [id |-> new.id, alive |-> TRUE] \in ListResult(terminals', terms')
          /\ \A k \in DOMAIN terminals \cap DOMAIN terminals' :
                terminals'[k] = terminals[k]]_vars

\* a session created after an earlier one was killed
C10_Witness ==
    /\ Len(terms) = 2
    /\ terms[1].id \in killed
    /\ terms[2].id \in DOMAIN terminals

\* ------------------------------------------------------------------ C11

\* C11: nothing is written to the input of a session that is not alive: an
\* input request naming it is answered with a not-found / not-alive error and
\* does not reach stdin.write, and the initialisation timer of a session that
\* is not alive when it fires does not write.
C11_NoWriteToDeadSession ==
    /\ [](\A r \in DOMAIN terms :
            ~terms[r].alive =>
                \A data \in Datas :
                    /\ InputResult(terms[r].id, data).resp \in {"not_found", "not_alive"}
                    /\ ~InputResult(terms[r].id, data).wrote)
    /\ [][\A r \in DOMAIN terms :
            (~terms[r].alive /\ procs[r].initTimer = "pending")
            => procs'[r].initTimer # "wrote"]_vars

\* a session that died before its timer fired, still registered, its stdin
\* still writable, and whose timer has fired since
C11_Witness ==
    \E r \in DOMAIN terms :
        /\ ~terms[r].alive
        /\ terms[r].id \in DOMAIN terminals
        /\ procs[r].stdinWritable
        /\ procs[r].initTimer = "skipped"

\* ------------------------------------------------------------------ C12

\* C12: a signal request on an alive session attempts the process group
\* first and the shell process only if the group attempt failed; whatever the
\* two attempts did, the response is ok and carries the signal name, SIGINT
\* when the request names none.
C12_SignalGroupThenProc ==
    \A id \in DOMAIN terminals :
        terms[terminals[id]].alive =>
            \A sig \in Signals, groupOk, procOk \in BOOLEAN :
                LET r == SignalResult(id, sig, groupOk, procOk)
                    s == IF sig = NoSignal THEN "SIGINT" ELSE sig
                IN  /\ r.resp = "ok"
                    /\ r.signal = s
                    /\ r.sigs[1] = SigAttempt("group", s, groupOk)
                    /\ groupOk => Len(r.sigs) = 1
                    /\ ~groupOk => r.sigs = <<SigAttempt("group", s, FALSE),
                                              SigAttempt("proc", s, procOk)>>

\* an alive session beside one that is registered and not alive
C12_Witness ==
    \E id, other \in DOMAIN terminals :
        /\ terms[terminals[id]].alive
        /\ ~terms[terminals[other]].alive

\* ------------------------------------------------------------------ C13

\* C13 as stated: no session is registered for a shell process that could not
\* be created.
C13_FailedCreationRegistersNothing ==
    \A id \in DOMAIN terminals : ~procs[terminals[id]].failed

\* ------------------------------------------------------------------ C14

\* the chunks in the buffer of the session of connection c when c subscribed
BufferAt(c) ==
    SubSeq(ChunksBefore(c), conns[c].subAt - conns[c].keptAt + 1, conns[c].subAt)

\* connection c subscribed after the exit of its session's process was observed
AfterExit(c) == ExitMsg \in Range(ChunksBefore(c))

\* a session whose process exited and that was not killed is still listed,
\* with alive = false
ExitedStaysListed ==
    \A r \in DOMAIN terms :
        (procs[r].exited /\ terms[r].id \notin killed)
        => [id |-> terms[r].id, alive |-> FALSE] \in ListResult(terminals, terms)

\* C14 as stated: a session whose process exited stays listed with
\* alive = false until it is killed, and a subscriber attaching after the exit
\* receives a history event that ends with the exit notice, then an exit
\* event.
C14_HistoryEndsWithExitNotice ==
    /\ ExitedStaysListed
    /\ \A c \in DOMAIN conns :
          AfterExit(c) =>
              /\ Len(conns[c].log) >= 2
              /\ conns[c].log[1].type = "history"
              /\ conns[c].log[1].data[Len(conns[c].log[1].data)] = ExitMsg[1]
              /\ conns[c].log[2] = Event("exit", AlreadyExitedMsg)

\* C14 (amended): a session whose process exited stays listed with
\* alive = false until it is killed, and a subscriber attaching after the exit
\* receives the buffer as a history event, then an exit event; the exit
\* notice, if truncation has not dropped it, is in that history, followed by
\* the output chunks delivered after the exit and by nothing else.
C14_HistoryHoldsExitNotice ==
    /\ ExitedStaysListed
    /\ \A c \in DOMAIN conns :
          AfterExit(c) =>
              LET log == conns[c].log
                  before == ChunksBefore(c)
                  dropped == conns[c].subAt - conns[c].keptAt
                  p == CHOOSE i \in DOMAIN before : before[i] = ExitMsg
              IN  /\ Len(log) >= 2
                  /\ log[1] = Event("history", Concat1(BufferAt(c)))
                  /\ log[2] = Event("exit", AlreadyExitedMsg)
                  /\ p > dropped =>
                        /\ log[1].data[p - dropped] = ExitMsg[1]
                        /\ \A i \in (p - dropped + 1)..Len(log[1].data) : log[1].data[i] > 0

\* a subscriber that attached after the exit and after output that came
\* later than the exit
C14_Witness ==
    \E c \in DOMAIN conns :
        /\ AfterExit(c)
        /\ IsOutputChunk(ChunksBefore(c)[conns[c].subAt])

\* ------------------------------------------------------------------ C15

\* C15 as stated: once the process of a session has exited, no stream
\* response attached to that session is open.
C15_ChannelsClosedOnDeath ==
    \A c \in DOMAIN conns : procs[conns[c].term].exited => ~conns[c].open

\* ------------------------------------------------------------------ claims on exec, helpers

CdTmp == CdCmd(PathText("/", <<"tmp">>))
CdHomeA == CdCmd(PathText("~/", <<"a">>))

\* the session a call starts from when the request has override ov
SessionAtCall(sid, ov) ==
    Fallback(Override(ExecSession(termSessions, SessionKey(sid)), fs, ov), fs)

\* ------------------------------------------------------------------ C16

\* C16: a bare cd to an existing directory D answers code 0 with cwd = D and
\* stores D; and for as long as the token saw no override, no chain, no other
\* successful cd and no reset after it and D stayed in place, a call with that
\* token answers cwd = D, and runs its command, if it has one, in D.
C16_ExecContinuity ==
    /\ \A sid \in SessionIds :
          LET tmp == ExecStep(termSessions, fs, sid, CdTmp, {}, NoOutcome)
              sub == ExecStep(termSessions, fs, sid, CdHomeA, {}, NoOutcome)
          IN  /\ IsDirectory(fs, TmpDir) =>
                    /\ tmp.resp = ExecResponse(<<>>, 0, TmpDir)
                    /\ tmp.session.cwd = TmpDir
              /\ IsDirectory(fs, SubDir) =>
                    /\ sub.resp = ExecResponse(<<>>, 0, SubDir)
                    /\ sub.session.cwd = SubDir
    /\ \A sid \in SessionIds : \A D \in cdTo[SessionKey(sid)] :
          /\ IsDirectory(fs, D)
          /\ ExecStep(termSessions, fs, sid, BlankCmd, {}, NoOutcome).resp.cwd = D
          /\ \A outcome \in Outcomes :
                LET res == ExecStep(termSessions, fs, sid, RunCmd, {}, outcome)
                IN  /\ res.resp.cwd = D
                    /\ res.ran = <<[cmd |-> "pwd", cwd |-> D]>>
                    /\ res.session.cwd = D

\* a token whose last successful bare cd went to the directory below home,
\* beside a token that is somewhere else
C16_Witness ==
    \E key, other \in DOMAIN termSessions :
        /\ cdTo[key] = {SubDir}
        /\ termSessions[other].cwd # SubDir

\* ------------------------------------------------------------------ C17

\* C17: a bare cd whose resolved target is not an existing directory leaves
\* the session as the call found it (cwd and prevCwd; the cwd being the one
\* the call starts from, after the override and the fallback to home), runs
\* no process, and answers code 1, the "No such file or directory" message
\* for the resolved target, and that cwd.
C17_FailedCdChangesNothing ==
    \A sid \in SessionIds, text \in Texts, ov \in Overrides :
        LET s == SessionAtCall(sid, ov)
            target == BareTarget(text, s)
            res == ExecStep(termSessions, fs, sid, CdCmd(text), ov, NoOutcome)
        IN  ~IsDirectory(fs, target) =>
                /\ res.session = s
                /\ res.ran = <<>>
                /\ res.resp.code # 0
                /\ res.resp.output = NoSuchFile(target)
                /\ res.resp.cwd = s.cwd
                /\ (/\ ov = {}
                    /\ SessionKey(sid) \in DOMAIN termSessions
                    /\ ExistsSync(fs, termSessions[SessionKey(sid)].cwd))
                   => res.session = termSessions[SessionKey(sid)]

\* a session that has moved twice and stands outside home, while the
\* directory below home is not a directory
C17_Witness ==
    \E key \in DOMAIN termSessions :
        /\ termSessions[key].cwd = TmpDir
        /\ termSessions[key].prevCwd = {<<>>}
        /\ ~IsDirectory(fs, SubDir)

\* ------------------------------------------------------------------ C18

\* C18 as stated: every call answers a cwd that is an existing directory at
\* the time of the call, and runs its command, if it runs one, in an existing
\* directory.
C18_CwdIsExistingDirectory ==
    \A sid \in SessionIds, cmd \in Commands, ov \in Overrides :
        \A outcome \in OutcomesOf(termSessions, fs, sid, cmd, ov) :
            LET res == ExecStep(termSessions, fs, sid, cmd, ov, outcome)
            IN  /\ IsDirectory(fs, res.resp.cwd)
                /\ \A i \in DOMAIN res.ran : IsDirectory(fs, res.ran[i].cwd)

\* ------------------------------------------------------------------ C19

\* C19 as stated: for every target form and both separators, a chain
\* "cd TARGET <sep> REST" leaves the session as the bare "cd TARGET" would
\* from the same state, and runs REST in the cwd it leaves.
C19_ChainChangesDirLikeBareCd ==
    \A sid \in SessionIds, text \in Texts, sep \in Separators, nl \in BOOLEAN :
        \A outcome \in OutcomesOf(termSessions, fs, sid, ChainCmd(text, sep, nl), {}) :
            LET chain == ExecStep(termSessions, fs, sid, ChainCmd(text, sep, nl), {}, outcome)
                bare == ExecStep(termSessions, fs, sid, CdCmd(text), {}, NoOutcome)
            IN  /\ chain.session = bare.session
                /\ chain.ran = <<[cmd |-> "pwd", cwd |-> chain.session.cwd]>>

\* ------------------------------------------------------------------ C20

\* C20: a call that runs a command answers code 0 exactly when the command
\* completed successfully, with the captured output; otherwise it answers a
\* non-zero code, the exit status of the command or 1 when there is none, and
\* the captured output or, when nothing was captured, the failure message;
\* every call is answered by a response.
C20_CodeZeroIffSuccess ==
    \A sid \in SessionIds, cmd \in Commands, ov \in Overrides :
        \A outcome \in OutcomesOf(termSessions, fs, sid, cmd, ov) :
            LET res == ExecStep(termSessions, fs, sid, cmd, ov, outcome)
            IN  /\ DOMAIN res.resp = {"output", "code", "cwd"}
                /\ res.ran # <<>> =>
                      /\ res.resp.code = 0 <=> outcome.ok
                      /\ outcome.ok => res.resp.output = outcome.captured
                      /\ ~outcome.ok =>
                            /\ res.resp.code > 0
                            /\ outcome.status > 0 => res.resp.code = outcome.status
                            /\ outcome.status <= 0 => res.resp.code = 1
                            /\ outcome.captured # <<>> => res.resp.output = outcome.captured
                            /\ outcome.captured = <<>> => res.resp.output = FailureMessage

\* a session whose stored cwd has been replaced by a file: a command run
\* there cannot be started, and there is no exit status
C20_Witness ==
    \E key \in DOMAIN termSessions : Kind(fs, termSessions[key].cwd) = "file"

\* ------------------------------------------------------------------ C21

\* C21: reset of a token removes that token's session, so that the next call
\* with the token starts from the home directory with no previous directory;
\* reset of a token without a session, or a second reset, is accepted and
\* changes nothing; and the sessions of the other tokens stay as they are.
C21_ResetDropsOnlyThatSession ==
    \A sid \in SessionIds :
        LET key == SessionKey(sid)
            after == DeleteSession(termSessions, key)
        IN  /\ Idle => ENABLED ResetSession(sid)
            /\ key \notin DOMAIN after
            /\ ExecSession(after, key) = NewSession
            /\ \A cmd \in Commands :
                   ExecStep(after, fs, sid, cmd, {}, NoOutcome)
                       = ExecStep([k \in {} |-> NewSession], fs, sid, cmd, {}, NoOutcome)
            /\ DOMAIN after = DOMAIN termSessions \ {key}
            /\ \A k \in DOMAIN after : after[k] = termSessions[k]
            /\ DeleteSession(after, key) = after
            /\ key \notin DOMAIN termSessions => after = termSessions

\* two tokens have a session away from home, each with a previous directory
C21_Witness ==
    /\ DOMAIN termSessions = SessionKeys
    /\ \A k \in SessionKeys :
           termSessions[k].cwd # HomeDir /\ termSessions[k].prevCwd # {}

\* ------------------------------------------------------------------ C22

\* the handlers that need nothing but a turn of the event loop are accepted,
\* and the output a process has ready is delivered
HandlersProceed ==
    /\ \A sid \in SessionIds : ENABLED Exec(sid, RunCmd, {})
    /\ \A id \in RequestIds : ENABLED Kill(id)
    /\ \A id \in RequestIds, data \in Datas : ENABLED Input(id, data)
    /\ \A r \in DOMAIN terms :
           ~procs[r].failed /\ budget.chunks > 0 => ENABLED ProcData(r)

\* C22: while the command of one exec call is running, the other operations
\* (delivery of terminal output, input, kill, another exec call) can be
\* processed before that call returns.
C22_RunDoesNotBlock == running # {} => HandlersProceed

\* between calls every one of these operations can be processed
C22_IdleProceeds == Idle => HandlersProceed

\* ------------------------------------------------------------------ C23

\* C23: a call whose command is empty after trimming starts no process and
\* answers empty output, code 0 and the current cwd of the session, whatever
\* the token and the override.
C23_BlankCommandAnswersAtOnce ==
    \A sid \in SessionIds, ov \in Overrides :
        LET res == ExecStep(termSessions, fs, sid, BlankCmd, ov, NoOutcome)
        IN  /\ ~Runs(BlankCmd)
            /\ res.ran = <<>>
            /\ res.resp = ExecResponse(<<>>, 0, SessionAtCall(sid, ov).cwd)
            /\ res.session = SessionAtCall(sid, ov)
            /\ \A outcome \in Outcomes :
                   ExecStep(termSessions, fs, sid, BlankCmd, ov, outcome) = res

\* a session that has moved from /tmp to a directory under home
C23_Witness ==
    \E key \in DOMAIN termSessions :
        termSessions[key].cwd = SubDir /\ termSessions[key].prevCwd = {TmpDir}

\* ------------------------------------------------------------------ C24

\* path is root or lies under it
InTree(path, root) == path = root \/ StartsWith(path, root \o <<Slash>>)

\* C24: whatever path is requested, resolveSafe rejects it or returns a path
\* inside the home directory tree.
C24_ResolveStaysInsideHome ==
    \A i \in DOMAIN lastResolve :
        lastResolve[i].ok => InTree(lastResolve[i].path, HomeStr)

\* the same with the tree of the second allowed root granted
C24_ResolveStaysInsideAllowedTrees ==
    \A i \in DOMAIN lastResolve :
        lastResolve[i].ok =>
            \E r \in DOMAIN ALLOWED_ROOTS : InTree(lastResolve[i].path, ALLOWED_ROOTS[r])

\* what resolveSafe rejects is outside both trees
C24_RejectedIsOutside ==
    \A i \in DOMAIN lastResolve :
        ~lastResolve[i].ok =>
            \A r \in DOMAIN ALLOWED_ROOTS : ~InTree(lastResolve[i].path, ALLOWED_ROOTS[r])

\* ------------------------------------------------------------------ C25

\* C25: the launcher starts a new worker exactly when the worker exited with
\* code 0: after such an exit a new worker is eventually started; after an
\* exit with another code or by a signal no worker is started any more and the
\* launcher has ended with a non-zero code; and two workers never run at once.
C25_RestartExactlyOnCodeZero ==
    /\ [](launcher.workers \in {0, 1})
    /\ [](~launcher.alive => launcher.code # 0 /\ launcher.workers = 0 /\ ~launcher.timer)
    /\ [][\A code \in ExitCodes :
            WorkerExit(code) =>
                /\ code = 0 => launcher'.alive /\ launcher'.timer
                /\ code # 0 => ~launcher'.alive /\ ~launcher'.timer
                /\ code > 0 => launcher'.code = code]_vars
    /\ [][launcher'.started # launcher.started =>
            launcher.alive /\ launcher.timer /\ launcher.workers = 0]_vars
    /\ (launcher.timer ~> launcher.workers = 1)

\* the second worker runs: the first one was restarted
C25_Witness ==
    launcher.alive /\ launcher.started = 2 /\ launcher.workers = 1

\* ------------------------------------------------------------------ C26

\* a call with token sid leaves the sessions of the other tokens and every
\* terminal session as they are
ExecFrame(sid) ==
    /\ \A k \in DOMAIN termSessions \ {SessionKey(sid)} :
           k \in DOMAIN termSessions' /\ termSessions'[k] = termSessions[k]
    /\ DOMAIN termSessions' \subseteq DOMAIN termSessions \cup {SessionKey(sid)}
    /\ UNCHANGED termVars

\* C26: a call whose command is neither a bare cd nor a chain, without
\* override and with the stored cwd still in place, leaves cwd and prevCwd of
\* its session as they were, whatever the command does; and a call with one
\* token changes neither the session of another token nor a terminal session.
C26_ExecFrame ==
    /\ [](\A sid \in SessionIds, cmd \in {BlankCmd, RunCmd} :
            \A outcome \in OutcomesOf(termSessions, fs, sid, cmd, {}) :
                (/\ SessionKey(sid) \in DOMAIN termSessions
                 /\ ExistsSync(fs, termSessions[SessionKey(sid)].cwd))
                => ExecStep(termSessions, fs, sid, cmd, {}, outcome).session
                       = termSessions[SessionKey(sid)])
    /\ [][\A sid \in SessionIds, cmd \in RunCommands :
            Exec(sid, cmd, {}) =>
                /\ ExecFrame(sid)
                /\ (cmd = RunCmd /\ SessionKey(sid) \in DOMAIN termSessions)
                   => termSessions' = termSessions]_vars
    /\ [][ExecReturn => UNCHANGED <<termSessions, termVars>>]_vars

\* a command of the default token is running while the other token has a
\* session in /tmp and a terminal session with a subscriber is alive
C26_Witness ==
    /\ running = {"default"}
    /\ "s1" \in DOMAIN termSessions /\ termSessions["s1"].cwd = TmpDir
    /\ termSessions["default"].cwd = HomeDir
    /\ \E c \in DOMAIN conns : conns[c].open /\ terms[conns[c].term].alive

\* ------------------------------------------------------------------ C27

\* the subscribers of session r whose connection is open
OpenConns(r) == {c \in DOMAIN conns : conns[c].term = r /\ conns[c].open}

\* C27: a subscriber whose connection closed is no longer in the subscriber
\* set of its session, and nothing is written to it afterwards (no output,
\* exit or error event, no ping); the subscribers that stay open are in the
\* set and get every event the session produces; removing a subscriber a
\* second time changes nothing.
C27_ClosedSubscriberGetsNothing ==
    /\ [](\A c \in DOMAIN conns :
            conns[c].open <=> c \in Range(terms[conns[c].term].clients))
    /\ [][\A c \in DOMAIN conns : ~conns[c].open => conns'[c] = conns[c]]_vars
    /\ [][\A r \in DOMAIN terms :
            Len(appended'[r]) > Len(appended[r]) =>
                \A c \in OpenConns(r) :
                    /\ conns'[c].open
                    /\ Len(conns'[c].log) > Len(conns[c].log)
                    /\ SubSeq(conns'[c].log, 1, Len(conns[c].log)) = conns[c].log
                    /\ conns'[c].log[Len(conns'[c].log)].data
                           = appended'[r][Len(appended'[r])]]_vars
    /\ [](\A r \in DOMAIN terms, c \in DOMAIN conns :
            LET once == RemoveClient(terms[r].clients, c)
            IN  /\ RemoveClient(once, c) = once
                /\ Range(once) = Range(terms[r].clients) \ {c}
                /\ c \notin Range(terms[r].clients) => once = terms[r].clients)

\* of two subscribers of one session the first has closed, and the second got
\* an event that was produced after the close and is not in the log of the
\* first
C27_Witness ==
    \E c, d \in DOMAIN conns :
        /\ c # d
        /\ conns[c].term = conns[d].term
        /\ ~conns[c].open /\ conns[d].open
        /\ \E j \in DOMAIN conns[d].log :
              /\ conns[d].log[j].type \in {"output", "exit"}
              /\ \A i \in DOMAIN conns[c].log :
                     conns[c].log[i].type = "history" \/ conns[c].log[i] # conns[d].log[j]
        /\ \E i \in DOMAIN conns[c].log : conns[c].log[i].type = "output"

\* ------------------------------------------------------------------ C28

\* C28: no signal is sent to the pid or the process group of a session whose
\* exit has been observed: kill on a session that exited and is still
\* registered removes it from the table and signals nothing.
C28_NoSignalAfterExit ==
    \A id \in DOMAIN terminals, groupOk \in BOOLEAN :
        procs[terminals[id]].exited =>
            /\ KillResult(id, groupOk).resp = "ok"
            /\ id \notin DOMAIN KillTable(terminals, id)
            /\ KillResult(id, groupOk).sigs = <<>>

\* signal, input and the kill of a shell that never started send nothing
C28_OtherPathsSendNothing ==
    \A id \in DOMAIN terminals :
        /\ procs[terminals[id]].exited =>
               \A sig \in Signals, groupOk, procOk \in BOOLEAN :
                   SignalResult(id, sig, groupOk, procOk).sigs = <<>>
        /\ procs[terminals[id]].failed =>
               \A groupOk \in BOOLEAN : KillResult(id, groupOk).sigs = <<>>

\* ------------------------------------------------------------------ C29

\* the exit events subscriber c has received
ExitEvents(c) == {j \in DOMAIN conns[c].log : conns[c].log[j].type = "exit"}

\* C29: whatever the order of error and exit events of the process, of
\* subscribes and of kills, a subscriber receives at most one exit event for
\* its session: the one sent on attaching to a dead session or the one sent
\* when the process exits, never both.
C29_AtMostOneExitEvent ==
    \A c \in DOMAIN conns : Cardinality(ExitEvents(c)) <= 1

\* a subscriber that attached while the session was alive receives at most
\* one exit event, and so does every subscriber of a session without error
C29_OneExitWithoutError ==
    \A c \in DOMAIN conns :
        (conns[c].aliveAt \/ ErrorMsg \notin Range(appended[conns[c].term]))
            => Cardinality(ExitEvents(c)) <= 1

\* ------------------------------------------------------------------ C30

\* subscriber c is attached to a session that has been killed
AttachedToKilled(c) ==
    c \in DOMAIN conns /\ terms[conns[c].term].id \in killed

\* subscriber c has closed or has received an exit event
ClosedOrGotExit(c) ==
    c \in DOMAIN conns /\ (~conns[c].open \/ ExitEvents(c) # {})

\* C30: when a session with attached subscribers is killed, each subscriber
\* whose connection stays open eventually receives an exit event, although
\* the session is no longer in the table, provided the exit of the killed
\* process is eventually observed.
C30_KilledSessionSendsExit ==
    \A c \in 1..StreamClients :
        AttachedToKilled(c) ~> ClosedOrGotExit(c)

\* a subscriber that attached to a live session and is still open has received
\* the exit event of the process after the session was killed and removed
C30_Witness ==
    \E c \in DOMAIN conns :
        /\ conns[c].open /\ conns[c].aliveAt
        /\ terms[conns[c].term].id \in killed
        /\ terms[conns[c].term].id \notin DOMAIN terminals
        /\ \E j \in ExitEvents(c) : conns[c].log[j] = Event("exit", ExitMsg)
        /\ ErrorMsg \notin Range(appended[conns[c].term])

====
